---------------------------- MODULE Spec2Model ----------------------------
(***************************************************************************)
(* SENSAI: the retry-with-backoff calls to the generative-AI API.          *)
(*                                                                         *)
(* Three entry points of the repository are modelled, one run at a time:   *)
(*   generateAIInsights        actions/dashboard  (src/unnamed/part_001)   *)
(*   improveWithAI             actions/resume     (src/unnamed/part_001)   *)
(*   generateIndustryInsights  the weekly job     (src/lib/inngest)        *)
(*                                                                         *)
(* A step of the model is what JavaScript runs between two awaits: the     *)
(* remote call is issued (Invoke), it settles and the continuation runs    *)
(* up to the next await or to the end (Resolve), a backoff timer fires     *)
(* (Wake).                                                                 *)
(*                                                                         *)
(* Strings are modelled by what the code asks of them.  An error message   *)
(* is the set of the substrings the code searches for that it contains     *)
(* (String.prototype.includes is membership).  A response text is a        *)
(* sequence of tokens: the fence, the tag json, a newline, a blank and     *)
(* opaque content.                                                         *)
(***************************************************************************)
EXTENDS Integers, Sequences, FiniteSets, TLC

VARIABLES
    flow,         \* the entry point this run executes
    pc,           \* position of the run
    req,          \* arguments and ambient session of the call
    i,            \* loop variable: i of retryWithBackoff, attempt of improveWithAI
    lastError,    \* improveWithAI: let lastError
    calls,        \* outcomes of the remote calls of the current retry loop, in order
    sleeps,       \* delays of the setTimeout calls of the current retry loop, in order
    outstanding,  \* remote calls issued and not yet settled
    caught,       \* generateAIInsights: the error its catch clause received
    ret,          \* how the entry point ended: nothing yet, a return, a throw
    db,           \* table industryInsight: industry -> stored insights
    industries,   \* the job: result of step fetch-industries
    k,            \* the job: index in industries of the current step
    dbPending,    \* the job: db updates issued and not settled
    stepLog,      \* the job: results returned by the finished steps
    maxRetriesArg, \* retryWithBackoff: the value of its parameter maxRetries
    quotes,       \* whether the engine's JSON.parse quotes the text in its error
    run,          \* generateAIInsights: 1 in the first call, 2 in a repeated call
    first,        \* what the first call of generateAIInsights did and returned
    nextUpdate,   \* table industryInsight: column nextUpdate of each row
    procs         \* concurrent calls of getIndustryInsights: the state of each

vars == <<flow, pc, req, i, lastError, calls, sleeps, outstanding, caught, ret,
          db, industries, k, dbPending, stepLog,
          maxRetriesArg, quotes, run, first, nextUpdate, procs>>

\* The environment of a call, which no step of it changes.
config == <<maxRetriesArg, quotes>>

---------------------------------------------------------------------------
(* Bounds and program constants *)

\* Number of industry keys the table may hold.
MaxIndustries == 2

\* Largest maxRetries the helpers are run with on their own.
MaxHelperRetries == 4

\* const maxRetries = 3 (improveWithAI), the default of both helpers, and
\* the argument the job passes.
MaxRetries == 3

\* retryWithBackoff(fn, maxRetries = 3, baseDelay = 1000) in actions/dashboard
BaseDelay == 1000

\* retryWithBackoff(..., 3, 2000) in the job
InitialDelay == 2000

\* 1000 * attempt in improveWithAI
ImproveDelayUnit == 1000

IndustryNames == <<"tech", "finance", "health", "retail">>

Industries == { IndustryNames[n] : n \in 1..MaxIndustries }

---------------------------------------------------------------------------
(* Errors *)

NoError == [name |-> "none", status |-> 0, msg |-> {}]

\* Errors model.generateContent rejects with.  The SDK's fetch error carries
\* the HTTP status and a message
\*   "Error fetching from <url>: [<status> <statusText>] <detail>",
\* so the status is in the message; status 0 stands for no status property.
ErrRateLimited  == [name |-> "RateLimited", status |-> 429,
                    msg |-> {"429", "quota", "fetch"}]
ErrOverloaded   == [name |-> "ServiceOverloaded", status |-> 503,
                    msg |-> {"503", "overloaded", "fetch"}]
ErrOverloadedNoStatus == [name |-> "ServiceOverloaded", status |-> 0,
                    msg |-> {"overloaded"}]
ErrAuth         == [name |-> "AuthFailure", status |-> 403,
                    msg |-> {"403", "fetch"}]
ErrNetwork      == [name |-> "NetworkError", status |-> 0,
                    msg |-> {"fetch", "network"}]
ErrUnknown      == [name |-> "Unknown", status |-> 0, msg |-> {}]

RemoteErrors == {ErrRateLimited, ErrOverloaded, ErrOverloadedNoStatus,
                 ErrAuth, ErrNetwork, ErrUnknown}

\* response.text() of a candidate blocked for SAFETY throws in the SDK
\* ("Candidate was blocked due to SAFETY").
ErrBlockedText  == [name |-> "PolicyBlocked", status |-> 0, msg |-> {}]

\* Reading a property of undefined (no response, no candidate content).
ErrTypeError    == [name |-> "Unknown", status |-> 0, msg |-> {}]

\* JSON.parse's SyntaxError; some engines quote the offending text in it.
ErrMalformed(m) == [name |-> "MalformedOutput", status |-> 0, msg |-> m]

\* includes(): substring test on a message
Includes(msg, s) == s \in msg

---------------------------------------------------------------------------
(* Response texts *)

Whitespace == {"NL", "SP"}

RECURSIVE StripFences(_)
\* text.replace(/```(?:json)?\n?/g, "")
StripFences(t) ==
    IF t = <<>> THEN <<>>
    ELSE IF Head(t) = "FENCE"
         THEN LET a == Tail(t)
                  b == IF a # <<>> /\ Head(a) = "json" THEN Tail(a) ELSE a
                  c == IF b # <<>> /\ Head(b) = "NL" THEN Tail(b) ELSE b
              IN  StripFences(c)
         ELSE <<Head(t)>> \o StripFences(Tail(t))

RECURSIVE TrimLeft(_)
TrimLeft(t) ==
    IF t # <<>> /\ Head(t) \in Whitespace THEN TrimLeft(Tail(t)) ELSE t

RECURSIVE TrimRight(_)
TrimRight(t) ==
    IF t # <<>> /\ t[Len(t)] \in Whitespace
    THEN TrimRight(SubSeq(t, 1, Len(t) - 1)) ELSE t

\* String.prototype.trim
Trim(t) == TrimRight(TrimLeft(t))

\* const cleanedText = text.replace(/```(?:json)?\n?/g, "").trim();
CleanText(t) == Trim(StripFences(t))

NoInsights == [demandLevel |-> "NONE", marketOutlook |-> "NONE", growthRate |-> 0,
               keyTrends |-> <<>>]

Insights1 == [demandLevel |-> "HIGH", marketOutlook |-> "POSITIVE", growthRate |-> 7,
              keyTrends |-> <<"AI">>]
Insights2 == [demandLevel |-> "LOW", marketOutlook |-> "NEGATIVE", growthRate |-> 2,
              keyTrends |-> <<"Remote Work">>]
\* Insights one of whose trends is the three backticks, and the same with
\* that trend empty.
Insights3 == [demandLevel |-> "HIGH", marketOutlook |-> "NEUTRAL", growthRate |-> 3,
              keyTrends |-> <<"FENCE">>]
Insights3Emptied == [demandLevel |-> "HIGH", marketOutlook |-> "NEUTRAL",
                     growthRate |-> 3, keyTrends |-> <<"">>]

\* A record as stored before the run.
StaleInsights == [demandLevel |-> "MEDIUM", marketOutlook |-> "NEUTRAL", growthRate |-> 1,
                  keyTrends |-> <<"Old">>]

\* JSON documents: J1 and J2 are whole documents; J3_OPEN and J3_CLOSE are
\* the text of a document before and after the string of its trend.
Doc1 == <<"J1">>
Doc2 == <<"J2">>
Doc3 == <<"J3_OPEN", "FENCE", "J3_CLOSE">>
Doc3Emptied == <<"J3_OPEN", "J3_CLOSE">>

\* The JSON documents and the values they denote.
JsonDocs == {Doc1, Doc2, Doc3, Doc3Emptied}
JsonValue(doc) ==
    IF doc = Doc1 THEN Insights1
    ELSE IF doc = Doc2 THEN Insights2
    ELSE IF doc = Doc3 THEN Insights3
    ELSE Insights3Emptied

\* JSON.parse accepts a document with blanks around it and nothing else.
ParseOk(t) == Trim(t) \in JsonDocs
JSONParse(t) == JsonValue(Trim(t))

\* A text between a leading ```json fence and a trailing ``` fence.
Wrap(t) == <<"FENCE", "json", "NL">> \o t \o <<"NL", "FENCE">>

\* The message the SyntaxError of JSON.parse(t) carries: an engine that
\* quotes the text repeats a searched substring that the text holds.
ParseErrorMsgs(t) ==
    IF quotes /\ \E n \in 1..Len(t) : t[n] = "overloaded"
    THEN {{"overloaded"}} ELSE {{}}

Texts == { Doc1, Doc2, Wrap(Doc2), Doc3, Wrap(Doc3),
           <<"oops">>, <<"overloaded">>, <<>>, <<"SP">> }

---------------------------------------------------------------------------
(* Outcomes of model.generateContent(prompt) *)

Threw(e)     == [kind |-> "throw", err |-> e, finish |-> "", text |-> <<>>]
Responded(t) == [kind |-> "response", err |-> NoError, finish |-> "STOP", text |-> t]
Blocked      == [kind |-> "response", err |-> NoError, finish |-> "SAFETY", text |-> <<>>]
NoResponse   == [kind |-> "noResponse", err |-> NoError, finish |-> "", text |-> <<>>]

Outcomes == { Threw(e) : e \in RemoteErrors }
            \cup { Responded(t) : t \in Texts }
            \cup { Blocked, NoResponse }

---------------------------------------------------------------------------
(* Results of an entry point *)

Running      == [kind |-> "none", val |-> NoInsights, str |-> <<>>, err |-> NoError]
Returned(v)  == [kind |-> "return", val |-> v, str |-> <<>>, err |-> NoError]
ReturnedStr(s) == [kind |-> "return", val |-> NoInsights, str |-> s, err |-> NoError]
Thrown(e)    == [kind |-> "throw", val |-> NoInsights, str |-> <<>>, err |-> e]

\* The value of a row that does not exist.
Absent == [demandLevel |-> "ABSENT", marketOutlook |-> "ABSENT", growthRate |-> 0,
           keyTrends |-> <<>>]

\* What an entry point has learnt of its caller: the session's user, the
\* user row, the content to improve, the user's industry and its insight
\* row, the onboarding status, and whether the onboarding status and the
\* insights have been asked for.
NoReq == [userId |-> "", userFound |-> FALSE, current |-> <<>>, industry |-> "",
          insight |-> Absent, onboarded |-> FALSE, queried |-> FALSE,
          fetched |-> FALSE]

---------------------------------------------------------------------------
(* actions/dashboard: retryWithBackoff, getFallbackInsights, generateAIInsights *)

\* Mutant: the last retry is taken for one more (i === maxRetries).
IsLastRetryLate(n, maxRetries) == n = maxRetries

\* const isLastRetry = i === maxRetries - 1;
IsLastRetry(n, maxRetries) == n = maxRetries - 1

\* error.message?.includes('overloaded') || error.message?.includes('503')
IsOverloaded(error) ==
    Includes(error.msg, "overloaded") \/ Includes(error.msg, "503")

RECURSIVE Pow2(_)
Pow2(n) == IF n = 0 THEN 1 ELSE 2 * Pow2(n - 1)

\* Mutant: the delay does not grow.
DelayNoBackoff(baseDelay, n) == baseDelay

\* const delay = baseDelay * Math.pow(2, i);
Delay(baseDelay, n) == baseDelay * Pow2(n)

\* getFallbackInsights(industry): the same record for every industry
getFallbackInsights(industry) ==
    [demandLevel |-> "MEDIUM", marketOutlook |-> "POSITIVE", growthRate |-> 5,
     keyTrends |-> <<"Digital Transformation">>]

\* What the callback passed to retryWithBackoff throws for a settled remote
\* call (lines 258-262); the empty set when it returns the parsed value.
G_FnErrors(o) ==
    IF o.kind = "throw" THEN {o.err}
    ELSE IF o.kind = "noResponse" THEN {ErrTypeError}
    ELSE IF o.finish = "SAFETY" THEN {ErrBlockedText}
    ELSE IF ParseOk(CleanText(o.text)) THEN {}
    ELSE { ErrMalformed(m) : m \in ParseErrorMsgs(CleanText(o.text)) }

\* if (isLastRetry || !isOverloaded) throw error;
G_Rethrows(error, n, maxRetries) ==
    IsLastRetry(n, maxRetries) \/ ~IsOverloaded(error)

\* Mutant: the catch clause logs and rethrows.
G_CatchRethrows(error, industry) == Thrown(error)

\* catch (error) { ...; return getFallbackInsights(industry); }
G_Catch(error, industry) == Returned(getFallbackInsights(industry))

\* Mutant: i is declared outside the helper and keeps its value.
G_LoopStartStale(previous) == previous

\* for (let i = 0; ...
G_LoopStart(previous) == 0

\* What the remote call of this attempt can do.  A repeated call meets the
\* remote of the first call: the same outcome on the same attempt.
G_NextOutcomes ==
    IF run = 2 /\ Len(calls) < Len(first.calls)
    THEN {first.calls[Len(calls) + 1]}
    ELSE Outcomes

\* The entry points in which generateAIInsights runs: on its own, called by
\* getIndustryInsights, and by getIndustryInsights for DashboardPage.
GFlows == {"generateAIInsights", "getIndustryInsights", "DashboardPage"}

\* Where generateAIInsights returns to: its caller in getIndustryInsights
\* goes on to the create.
G_Return == IF flow = "generateAIInsights" THEN "done" ELSE "create"

\* generateAIInsights(industry) is called; retryWithBackoff starts with i = 0.
G_Enter ==
    /\ flow = "generateAIInsights" /\ pc = "start"
    /\ \E ind \in (IF run = 2 THEN {req.industry} ELSE Industries) :
          req' = [NoReq EXCEPT !.industry = ind]
    /\ i' = G_LoopStart(i)
    /\ pc' = "call"
    /\ UNCHANGED <<flow, lastError, calls, sleeps, outstanding, caught, ret,
                   db, industries, k, dbPending, stepLog>>
    /\ UNCHANGED <<config, run, first, nextUpdate, procs>>

\* for (let i = 0; i < maxRetries; i++) { try { return await fn();
G_Invoke ==
    /\ flow \in GFlows /\ pc = "call"
    /\ i < maxRetriesArg
    /\ outstanding' = outstanding + 1
    /\ pc' = "awaitCall"
    /\ UNCHANGED <<flow, req, i, lastError, calls, sleeps, caught, ret,
                   db, industries, k, dbPending, stepLog>>
    /\ UNCHANGED <<config, run, first, nextUpdate, procs>>

\* The remote call settles: the callback cleans and parses, the helper
\* returns, sleeps or rethrows, and the catch of generateAIInsights turns a
\* rethrown error into the fallback record.
G_Resolve ==
    /\ flow \in GFlows /\ pc = "awaitCall"
    /\ \E o \in G_NextOutcomes :
        /\ calls' = Append(calls, o)
        /\ outstanding' = outstanding - 1
        /\ IF G_FnErrors(o) = {}
           THEN /\ ret' = Returned(JSONParse(CleanText(o.text)))
                /\ pc' = G_Return
                /\ UNCHANGED <<sleeps, caught>>
           ELSE \E error \in G_FnErrors(o) :
                IF G_Rethrows(error, i, maxRetriesArg)
                THEN /\ caught' = error
                     /\ ret' = G_Catch(error, req.industry)
                     /\ pc' = G_Return
                     /\ UNCHANGED sleeps
                ELSE /\ sleeps' = Append(sleeps, Delay(BaseDelay, i))
                     /\ pc' = "sleeping"
                     /\ UNCHANGED <<caught, ret>>
    /\ UNCHANGED <<flow, req, i, lastError, db, industries, k, dbPending, stepLog>>
    /\ UNCHANGED <<config, run, first, nextUpdate, procs>>

\* The timer of the backoff fires; the loop goes to its next iteration.
G_Wake ==
    /\ flow \in GFlows /\ pc = "sleeping"
    /\ i' = i + 1
    /\ pc' = "call"
    /\ UNCHANGED <<flow, req, lastError, calls, sleeps, outstanding, caught, ret,
                   db, industries, k, dbPending, stepLog>>
    /\ UNCHANGED <<config, run, first, nextUpdate, procs>>

\* generateAIInsights has returned and is called again with the same
\* industry: nothing of the first call is left but what the module keeps.
G_Again ==
    /\ flow = "generateAIInsights" /\ pc = "done"
    /\ run = 1
    /\ first' = [ret |-> ret, calls |-> calls, sleeps |-> sleeps]
    /\ run' = 2
    /\ calls' = <<>>
    /\ sleeps' = <<>>
    /\ caught' = NoError
    /\ ret' = Running
    /\ pc' = "start"
    /\ UNCHANGED <<flow, req, i, lastError, outstanding,
                   db, industries, k, dbPending, stepLog>>
    /\ UNCHANGED <<config, nextUpdate, procs>>

\* The for loop of retryWithBackoff ends without a return or a throw: the
\* helper, and generateAIInsights with it, returns undefined.
G_FallThrough ==
    /\ flow \in GFlows /\ pc = "call"
    /\ i >= maxRetriesArg
    /\ ret' = Returned(NoInsights)
    /\ pc' = G_Return
    /\ UNCHANGED <<flow, req, i, lastError, calls, sleeps, outstanding, caught,
                   db, industries, k, dbPending, stepLog>>
    /\ UNCHANGED <<config, run, first, nextUpdate, procs>>

---------------------------------------------------------------------------
(* actions/resume: improveWithAI *)

ErrUnauthorized == [name |-> "Unauthorized", status |-> 0, msg |-> {}]
ErrUserNotFound == [name |-> "UserNotFound", status |-> 0, msg |-> {}]
ErrNoContent    == [name |-> "NoContent", status |-> 0, msg |-> {}]

\* throw new Error("No response received from AI")
ErrNoResponseAI == [name |-> "NoResponse", status |-> 0, msg |-> {}]
\* throw new Error("Content was blocked by safety filters. Please try rephrasing.")
ErrSafetyFilters == [name |-> "PolicyBlocked", status |-> 0, msg |-> {"safety filters"}]
\* throw new Error("AI returned empty response")
ErrEmptyResponse == [name |-> "MalformedOutput", status |-> 0, msg |-> {}]

\* The user-readable errors of lines 173-181.
UserSafety    == [name |-> "UserSafety", status |-> 0, msg |-> {"safety filters"}]
UserRateLimit == [name |-> "UserRateLimit", status |-> 0, msg |-> {"rate limit"}]
UserNetwork   == [name |-> "UserNetwork", status |-> 0, msg |-> {}]
UserGeneric   == [name |-> "UserGeneric", status |-> 0, msg |-> {}]

\* The if / else-if chain on errorMessage after the loop.
MapError(errorMessage) ==
    IF Includes(errorMessage, "safety filters") THEN UserSafety
    ELSE IF Includes(errorMessage, "quota") \/ Includes(errorMessage, "rate limit")
         THEN UserRateLimit
    ELSE IF Includes(errorMessage, "network") \/ Includes(errorMessage, "fetch")
         THEN UserNetwork
    ELSE UserGeneric

\* Mutant: the validation of the text is inverted.
I_TryErrorInverted(o) ==
    IF o.kind = "throw" THEN o.err
    ELSE IF o.kind = "noResponse" THEN ErrNoResponseAI
    ELSE IF o.finish = "SAFETY" THEN ErrSafetyFilters
    ELSE IF Len(Trim(o.text)) # 0 THEN ErrEmptyResponse
    ELSE NoError

\* What the try block throws for a settled remote call (lines 131-150);
\* NoError when it returns the trimmed text.
I_TryError(o) ==
    IF o.kind = "throw" THEN o.err
    ELSE IF o.kind = "noResponse" THEN ErrNoResponseAI
    ELSE IF o.finish = "SAFETY" THEN ErrSafetyFilters
    ELSE IF Len(Trim(o.text)) = 0 THEN ErrEmptyResponse
    ELSE NoError

\* Mutant: the loop gives up one attempt early.
I_IsLastAttemptEarly(attempt, maxRetries) == attempt = maxRetries - 1

\* if (attempt === maxRetries) break;
I_IsLastAttempt(attempt, maxRetries) == attempt = maxRetries

\* setTimeout(resolve, 1000 * attempt)
ImproveDelay(attempt) == ImproveDelayUnit * attempt

\* Mutant: only the first error is kept (lastError = lastError || error).
I_KeepFirstError(previous, error) == IF previous = NoError THEN error ELSE previous

\* lastError = error;
I_NextLastError(previous, error) == error

\* Mutant: the content is not validated.
I_GuardNoValidation(userId, found, current) ==
    IF userId = "" THEN ErrUnauthorized
    ELSE IF ~found THEN ErrUserNotFound
    ELSE NoError

\* The guards of lines 87-102: the error thrown, NoError when all pass.
I_Guard(userId, found, current) ==
    IF userId = "" THEN ErrUnauthorized
    ELSE IF ~found THEN ErrUserNotFound
    ELSE IF current = <<>> \/ Len(Trim(current)) = 0 THEN ErrNoContent
    ELSE NoError

\* The guards of lines 87-102, then the first iteration of the loop.
I_Enter ==
    /\ flow = "improveWithAI" /\ pc = "start"
    /\ \E userId \in {"", "u1"}, found \in BOOLEAN,
          current \in {<<>>, <<"SP">>, <<"text">>} :
        /\ req' = [NoReq EXCEPT !.userId = userId, !.userFound = found,
                                !.current = current]
        /\ IF I_Guard(userId, found, current) # NoError
           THEN ret' = Thrown(I_Guard(userId, found, current)) /\ pc' = "done"
           ELSE ret' = ret /\ pc' = "call"
    /\ i' = 1
    /\ UNCHANGED <<flow, lastError, calls, sleeps, outstanding, caught,
                   db, industries, k, dbPending, stepLog>>
    /\ UNCHANGED <<config, run, first, nextUpdate, procs>>

\* for (let attempt = 1; attempt <= maxRetries; attempt++) { ... generateContent
I_Invoke ==
    /\ flow = "improveWithAI" /\ pc = "call"
    /\ i <= MaxRetries
    /\ outstanding' = outstanding + 1
    /\ pc' = "awaitCall"
    /\ UNCHANGED <<flow, req, i, lastError, calls, sleeps, caught, ret,
                   db, industries, k, dbPending, stepLog>>
    /\ UNCHANGED <<config, run, first, nextUpdate, procs>>

\* The remote call settles: the try block returns the text or throws, the
\* catch records the error and sleeps, or breaks to the final throw.
I_Resolve ==
    /\ flow = "improveWithAI" /\ pc = "awaitCall"
    /\ \E o \in Outcomes :
        /\ calls' = Append(calls, o)
        /\ outstanding' = outstanding - 1
        /\ IF I_TryError(o) = NoError
           THEN /\ ret' = ReturnedStr(Trim(o.text))
                /\ pc' = "done"
                /\ UNCHANGED <<sleeps, lastError>>
           ELSE /\ lastError' = I_NextLastError(lastError, I_TryError(o))
                /\ IF I_IsLastAttempt(i, MaxRetries)
                   THEN /\ ret' = Thrown(MapError(lastError'.msg))
                        /\ pc' = "done"
                        /\ UNCHANGED sleeps
                   ELSE /\ sleeps' = Append(sleeps, ImproveDelay(i))
                        /\ pc' = "sleeping"
                        /\ UNCHANGED ret
    /\ UNCHANGED <<flow, req, i, caught, db, industries, k, dbPending, stepLog>>
    /\ UNCHANGED <<config, run, first, nextUpdate, procs>>

I_Wake ==
    /\ flow = "improveWithAI" /\ pc = "sleeping"
    /\ i' = i + 1
    /\ pc' = "call"
    /\ UNCHANGED <<flow, req, lastError, calls, sleeps, outstanding, caught, ret,
                   db, industries, k, dbPending, stepLog>>
    /\ UNCHANGED <<config, run, first, nextUpdate, procs>>

---------------------------------------------------------------------------
(* actions/dashboard: getIndustryInsights; app dashboard page: DashboardPage *)

\* redirect(url) of next/navigation leaves the page by throwing.
ErrRedirect(url) == [name |-> "NEXT_REDIRECT", status |-> 0, msg |-> {url}]

\* create on an industry that has a row: industry is the unique key the job's
\* update selects by.
ErrUniqueViolation == [name |-> "UniqueConstraintViolation", status |-> 0, msg |-> {}]

\* The entry points in which getIndustryInsights runs.
DFlows == {"getIndustryInsights", "DashboardPage"}

\* Where getIndustryInsights starts: DashboardPage calls it after its checks.
D_Start == IF flow = "DashboardPage" THEN "insights" ELSE "start"

\* Mutant: a row whose nextUpdate has passed is generated again.
D_NeedsGenerationWhenStale(row, rowNextUpdate) ==
    row = Absent \/ rowNextUpdate = "past"

\* if (!user.industryInsight)
D_NeedsGeneration(row, rowNextUpdate) == row = Absent

\* getIndustryInsights up to its first remote call: auth(), the user with
\* its industryInsight, the stored row returned when there is one, else
\* generateAIInsights(user.industry) entered.  Under DashboardPage the
\* session is the one the page authenticated, and what getIndustryInsights
\* returns or throws is what the page renders or throws.
D_Enter ==
    /\ flow \in DFlows /\ pc = D_Start
    /\ \E userId \in (IF flow = "DashboardPage" THEN {req.userId} ELSE {"", "u1"}),
          found \in BOOLEAN, ind \in Industries :
        IF userId = ""
        THEN /\ req' = [req EXCEPT !.fetched = TRUE]
             /\ ret' = Thrown(ErrUnauthorized)
             /\ pc' = "done"
             /\ i' = i
        ELSE IF ~found
        THEN /\ req' = [req EXCEPT !.userId = userId, !.fetched = TRUE]
             /\ ret' = Thrown(ErrUserNotFound)
             /\ pc' = "done"
             /\ i' = i
        ELSE /\ req' = [req EXCEPT !.userId = userId, !.userFound = TRUE,
                                   !.industry = ind, !.insight = db[ind],
                                   !.fetched = TRUE]
             /\ IF D_NeedsGeneration(db[ind], nextUpdate[ind])
                THEN /\ i' = G_LoopStart(i)
                     /\ pc' = "call"
                     /\ ret' = ret
                ELSE /\ ret' = Returned(db[ind])
                     /\ pc' = "done"
                     /\ i' = i
    /\ UNCHANGED <<flow, lastError, calls, sleeps, outstanding, caught,
                   db, industries, k, dbPending, stepLog>>
    /\ UNCHANGED <<config, run, first, nextUpdate, procs>>

\* await db.industryInsight.create({ data: { industry, ...insights,
\* nextUpdate } }); return industryInsight;  ret holds what
\* generateAIInsights returned.
D_Create ==
    /\ flow \in DFlows /\ pc = "create"
    /\ IF db[req.industry] # Absent
       THEN /\ ret' = Thrown(ErrUniqueViolation)
            /\ UNCHANGED <<db, nextUpdate>>
       ELSE /\ db' = [db EXCEPT ![req.industry] = ret.val]
            /\ nextUpdate' = [nextUpdate EXCEPT ![req.industry] = "future"]
            /\ ret' = Returned(ret.val)
    /\ pc' = "done"
    /\ UNCHANGED <<flow, req, i, lastError, calls, sleeps, outstanding, caught,
                   industries, k, dbPending, stepLog>>
    /\ UNCHANGED <<config, run, first, procs>>

\* Mutant: the onboarding status is not looked at.
Dash_NotOnboardedIgnored(isOnboarded) == FALSE

\* if (!isOnboarded)
Dash_NotOnboarded(isOnboarded) == ~isOnboarded

\* const { userId } = await auth(); if (!userId) redirect("/sign-in");
Dash_Auth ==
    /\ flow = "DashboardPage" /\ pc = "start"
    /\ \E userId \in {"", "u1"} :
        /\ req' = [NoReq EXCEPT !.userId = userId]
        /\ IF userId = ""
           THEN ret' = Thrown(ErrRedirect("/sign-in")) /\ pc' = "done"
           ELSE ret' = ret /\ pc' = "onboarding"
    /\ UNCHANGED <<flow, i, lastError, calls, sleeps, outstanding, caught,
                   db, industries, k, dbPending, stepLog>>
    /\ UNCHANGED <<config, run, first, nextUpdate, procs>>

\* const { isOnboarded } = await getUserOnboardingStatus();
\* if (!isOnboarded) redirect("/onboarding");
Dash_Onboarding ==
    /\ flow = "DashboardPage" /\ pc = "onboarding"
    /\ \E isOnboarded \in BOOLEAN :
        /\ req' = [req EXCEPT !.queried = TRUE, !.onboarded = isOnboarded]
        /\ IF Dash_NotOnboarded(isOnboarded)
           THEN ret' = Thrown(ErrRedirect("/onboarding")) /\ pc' = "done"
           ELSE ret' = ret /\ pc' = "insights"
    /\ UNCHANGED <<flow, i, lastError, calls, sleeps, outstanding, caught,
                   db, industries, k, dbPending, stepLog>>
    /\ UNCHANGED <<config, run, first, nextUpdate, procs>>

---------------------------------------------------------------------------
(* actions/dashboard: getIndustryInsights called by several requests at once *)

\* The number of requests in flight.
MaxCalls == 2

Callers == 1..MaxCalls

\* A request that has not started: its user's industry, the row it read, the
\* record generateAIInsights gave it, whether it issued a create, its result.
NewCall(ind) ==
    [pc |-> "start", industry |-> ind, insight |-> Absent,
     generated |-> NoInsights, issued |-> FALSE, ret |-> Running]

\* What generateAIInsights returns: the value parsed from a text of the
\* remote, or the fallback record.
G_Results(industry) ==
    { JSONParse(CleanText(t)) : t \in { x \in Texts : ParseOk(CleanText(x)) } }
        \cup {getFallbackInsights(industry)}

\* await db.user.findUnique({ include: { industryInsight: true } }) of one
\* request, and the return of the stored row when there is one.
P_Read ==
    /\ flow = "concurrent"
    /\ \E p \in Callers :
        /\ procs[p].pc = "start"
        /\ LET ind == procs[p].industry IN
           procs' = [procs EXCEPT ![p] =
                        IF D_NeedsGeneration(db[ind], nextUpdate[ind])
                        THEN [@ EXCEPT !.pc = "generate", !.insight = db[ind]]
                        ELSE [@ EXCEPT !.pc = "done", !.insight = db[ind],
                                       !.ret = Returned(db[ind])]]
    /\ UNCHANGED <<flow, pc, req, i, lastError, calls, sleeps, outstanding, caught,
                   ret, db, industries, k, dbPending, stepLog>>
    /\ UNCHANGED <<config, run, first, nextUpdate>>

\* await generateAIInsights(user.industry) of one request returns.
P_Generate ==
    /\ flow = "concurrent"
    /\ \E p \in Callers :
        /\ procs[p].pc = "generate"
        /\ \E v \in G_Results(procs[p].industry) :
              procs' = [procs EXCEPT ![p] = [@ EXCEPT !.pc = "create", !.generated = v]]
    /\ UNCHANGED <<flow, pc, req, i, lastError, calls, sleeps, outstanding, caught,
                   ret, db, industries, k, dbPending, stepLog>>
    /\ UNCHANGED <<config, run, first, nextUpdate>>

\* await db.industryInsight.create(...) of one request; return industryInsight.
P_Create ==
    /\ flow = "concurrent"
    /\ \E p \in Callers :
        /\ procs[p].pc = "create"
        /\ LET ind == procs[p].industry IN
           IF db[ind] # Absent
           THEN /\ procs' = [procs EXCEPT ![p] =
                                [@ EXCEPT !.pc = "done", !.issued = TRUE,
                                          !.ret = Thrown(ErrUniqueViolation)]]
                /\ UNCHANGED <<db, nextUpdate>>
           ELSE /\ procs' = [procs EXCEPT ![p] =
                                [@ EXCEPT !.pc = "done", !.issued = TRUE,
                                          !.ret = Returned(procs[p].generated)]]
                /\ db' = [db EXCEPT ![ind] = procs[p].generated]
                /\ nextUpdate' = [nextUpdate EXCEPT ![ind] = "future"]
    /\ UNCHANGED <<flow, pc, req, i, lastError, calls, sleeps, outstanding, caught,
                   ret, industries, k, dbPending, stepLog>>
    /\ UNCHANGED <<config, run, first>>

---------------------------------------------------------------------------
(* lib/inngest/function.js: retryWithBackoff and the job generateIndustryInsights *)

\* The orders in which findMany may return the rows of the table.
FetchOrders(table) ==
    LET keys == { x \in DOMAIN table : table[x] # Absent }
    IN  { s \in [1..Cardinality(keys) -> keys] :
            \A a, b \in 1..Cardinality(keys) : a # b => s[a] # s[b] }

\* if (i === maxRetries - 1) throw error;
B_IsLastRetry(n, maxRetries) == n = maxRetries - 1

\* Mutant: every error that carries a status is retried.
B_IsRetryableAnyStatus(error) == error.status # 0

\* if (error.status === 503 || error.status === 429)
B_IsRetryable(error) == error.status = 503 \/ error.status = 429

\* Mutant: the delay grows linearly.
B_DelayLinear(initialDelay, n) == initialDelay * (n + 1)

\* const delay = initialDelay * Math.pow(2, i);
B_Delay(initialDelay, n) == initialDelay * Pow2(n)

\* What lines 69-71 throw on the value retryWithBackoff returned; the empty
\* set when the text parses.  A blocked candidate has no content part, or
\* one without text.
B_ParseErrors(o) ==
    IF o.kind = "noResponse" THEN {ErrTypeError}
    ELSE IF o.finish = "SAFETY" THEN {ErrTypeError, ErrMalformed({})}
    ELSE IF ParseOk(CleanText(o.text)) THEN {}
    ELSE { ErrMalformed(m) : m \in ParseErrorMsgs(CleanText(o.text)) }

\* Mutant: the update is not awaited.
B_UpdateNotAwaited(industry, pending) == TRUE

\* await db.industryInsight.update(...): the step goes on once it settled.
B_UpdateAwaited(industry, pending) == \A u \in pending : u.industry # industry

\* step.run("fetch-industries", ...)
B_Fetch ==
    /\ flow = "generateIndustryInsights" /\ pc = "start"
    /\ \E order \in FetchOrders(db) : industries' = order
    /\ k' = 1
    /\ pc' = "loop"
    /\ UNCHANGED <<flow, req, i, lastError, calls, sleeps, outstanding, caught,
                   ret, db, dbPending, stepLog>>
    /\ UNCHANGED <<config, run, first, nextUpdate, procs>>

\* for (const { industry } of industries) { await step.run(...): the step
\* starts, and retryWithBackoff with i = 0.
B_StartStep ==
    /\ flow = "generateIndustryInsights" /\ pc = "loop"
    /\ k <= Len(industries)
    /\ req' = [NoReq EXCEPT !.industry = industries[k]]
    /\ i' = 0
    /\ calls' = <<>>
    /\ sleeps' = <<>>
    /\ pc' = "call"
    /\ UNCHANGED <<flow, lastError, outstanding, caught, ret, db, industries, k,
                   dbPending, stepLog>>
    /\ UNCHANGED <<config, run, first, nextUpdate, procs>>

B_Invoke ==
    /\ flow = "generateIndustryInsights" /\ pc = "call"
    /\ i < maxRetriesArg
    /\ outstanding' = outstanding + 1
    /\ pc' = "awaitCall"
    /\ UNCHANGED <<flow, req, i, lastError, calls, sleeps, caught, ret,
                   db, industries, k, dbPending, stepLog>>
    /\ UNCHANGED <<config, run, first, nextUpdate, procs>>

\* The remote call settles.  A rejection is rethrown or slept on by the
\* helper; a rethrown error leaves the step and the job.  A value is
\* returned to the step, which parses it and issues the update.
B_Resolve ==
    /\ flow = "generateIndustryInsights" /\ pc = "awaitCall"
    /\ \E o \in Outcomes :
        /\ calls' = Append(calls, o)
        /\ outstanding' = outstanding - 1
        /\ IF o.kind = "throw"
           THEN IF B_IsLastRetry(i, maxRetriesArg) \/ ~B_IsRetryable(o.err)
                THEN /\ ret' = Thrown(o.err)
                     /\ pc' = "done"
                     /\ UNCHANGED <<sleeps, dbPending>>
                ELSE /\ sleeps' = Append(sleeps, B_Delay(InitialDelay, i))
                     /\ pc' = "sleeping"
                     /\ UNCHANGED <<ret, dbPending>>
           ELSE IF B_ParseErrors(o) # {}
                THEN /\ \E error \in B_ParseErrors(o) : ret' = Thrown(error)
                     /\ pc' = "done"
                     /\ UNCHANGED <<sleeps, dbPending>>
                ELSE /\ dbPending' = dbPending \cup
                            {[industry |-> req.industry,
                              data |-> JSONParse(CleanText(o.text))]}
                     /\ pc' = "awaitUpdate"
                     /\ UNCHANGED <<sleeps, ret>>
    /\ UNCHANGED <<flow, req, i, lastError, caught, db, industries, k, stepLog>>
    /\ UNCHANGED <<config, run, first, nextUpdate, procs>>

B_Wake ==
    /\ flow = "generateIndustryInsights" /\ pc = "sleeping"
    /\ i' = i + 1
    /\ pc' = "call"
    /\ UNCHANGED <<flow, req, lastError, calls, sleeps, outstanding, caught, ret,
                   db, industries, k, dbPending, stepLog>>
    /\ UNCHANGED <<config, run, first, nextUpdate, procs>>

\* The for loop of retryWithBackoff ends without a return or a throw: res is
\* undefined and res.response throws.
B_FallThrough ==
    /\ flow = "generateIndustryInsights" /\ pc = "call"
    /\ i >= maxRetriesArg
    /\ ret' = Thrown(ErrTypeError)
    /\ pc' = "done"
    /\ UNCHANGED <<flow, req, i, lastError, calls, sleeps, outstanding, caught,
                   db, industries, k, dbPending, stepLog>>
    /\ UNCHANGED <<config, run, first, nextUpdate, procs>>

\* The database settles an update: where: { industry }, data: { ...insights }
B_UpdateSettles ==
    /\ flow = "generateIndustryInsights"
    /\ \E u \in dbPending :
        /\ db' = [db EXCEPT ![u.industry] = u.data]
        /\ nextUpdate' = [nextUpdate EXCEPT ![u.industry] = "future"]
        /\ dbPending' = dbPending \ {u}
    /\ UNCHANGED <<flow, pc, req, i, lastError, calls, sleeps, outstanding, caught,
                   ret, industries, k, stepLog>>
    /\ UNCHANGED <<config, run, first, procs>>

\* return { industry, status: "updated" }; the loop goes to the next industry.
B_StepReturn ==
    /\ flow = "generateIndustryInsights" /\ pc = "awaitUpdate"
    /\ B_UpdateAwaited(req.industry, dbPending)
    /\ stepLog' = Append(stepLog, req.industry)
    /\ k' = k + 1
    /\ pc' = "loop"
    /\ UNCHANGED <<flow, req, i, lastError, calls, sleeps, outstanding, caught, ret,
                   db, industries, dbPending>>
    /\ UNCHANGED <<config, run, first, nextUpdate, procs>>

\* return { message: "Industry insights generated successfully", count }
B_Return ==
    /\ flow = "generateIndustryInsights" /\ pc = "loop"
    /\ k > Len(industries)
    /\ ret' = ReturnedStr(<<"Industry insights generated successfully">>)
    /\ pc' = "done"
    /\ UNCHANGED <<flow, req, i, lastError, calls, sleeps, outstanding, caught,
                   db, industries, k, dbPending, stepLog>>
    /\ UNCHANGED <<config, run, first, nextUpdate, procs>>

---------------------------------------------------------------------------
(* The specification *)

Flows == {"generateAIInsights", "improveWithAI", "generateIndustryInsights",
          "getIndustryInsights", "DashboardPage"}

\* The entry points that read or write the table.
TableFlows == {"generateIndustryInsights", "getIndustryInsights", "DashboardPage"}

\* The tables the job may find: every industry has a row or none.
Tables == [Industries -> {Absent, StaleInsights}]

\* The nextUpdate column of a table: a date passed or to come for each row.
NextUpdates(table) ==
    { f \in [Industries -> {"none", "past", "future"}] :
        \A x \in Industries : f[x] = "none" <=> table[x] = Absent }

\* No first call of generateAIInsights has ended.
NoFirst == [ret |-> Running, calls |-> <<>>, sleeps |-> <<>>]

\* No concurrent call of getIndustryInsights.
NoProcs == <<>>

\* No entry point has started.
InitCommon ==
    /\ pc = "start"
    /\ req = NoReq
    /\ i = 0
    /\ lastError = NoError
    /\ calls = <<>>
    /\ sleeps = <<>>
    /\ outstanding = 0
    /\ caught = NoError
    /\ ret = Running
    /\ industries = <<>>
    /\ k = 0
    /\ dbPending = {}
    /\ stepLog = <<>>
    /\ run = 1
    /\ first = NoFirst

InitBase ==
    /\ flow \in Flows
    /\ InitCommon
    /\ db \in Tables
    /\ flow \notin TableFlows => db = [x \in Industries |-> Absent]
    /\ nextUpdate \in NextUpdates(db)
    /\ quotes \in BOOLEAN
    /\ procs = NoProcs

\* The program: both helpers are called with maxRetries = 3.
Init == InitBase /\ maxRetriesArg = MaxRetries

Next ==
    \/ G_Enter \/ G_Invoke \/ G_Resolve \/ G_Wake
    \/ I_Enter \/ I_Invoke \/ I_Resolve \/ I_Wake
    \/ B_Fetch \/ B_StartStep \/ B_Invoke \/ B_Resolve \/ B_Wake
    \/ B_UpdateSettles \/ B_StepReturn \/ B_Return
    \/ D_Enter \/ D_Create
    \/ Dash_Auth \/ Dash_Onboarding

Spec == Init /\ [][Next]_vars

\* The retry helpers on their own, with any maxRetries; improveWithAI keeps
\* its constant.
HelperFlows == {"generateAIInsights", "generateIndustryInsights"}

InitAnyRetries ==
    /\ InitBase
    /\ maxRetriesArg \in (IF flow \in HelperFlows THEN 0..MaxHelperRetries
                                                  ELSE {MaxRetries})

NextAnyRetries == Next \/ G_FallThrough \/ B_FallThrough

SpecAnyRetries == InitAnyRetries /\ [][NextAnyRetries]_vars

\* generateAIInsights called twice with the same industry against the same
\* remote.
InitTwice == Init /\ flow = "generateAIInsights"

NextTwice == G_Enter \/ G_Invoke \/ G_Resolve \/ G_Wake \/ G_Again

SpecTwice == InitTwice /\ [][NextTwice]_vars

\* Several requests call getIndustryInsights at once, each for a user of
\* some industry, over any table.
InitConcurrent ==
    /\ flow = "concurrent"
    /\ InitCommon
    /\ db \in Tables
    /\ nextUpdate \in NextUpdates(db)
    /\ quotes = FALSE
    /\ maxRetriesArg = MaxRetries
    /\ procs \in [Callers -> { NewCall(ind) : ind \in Industries }]

NextConcurrent == P_Read \/ P_Generate \/ P_Create

SpecConcurrent == InitConcurrent /\ [][NextConcurrent]_vars

---------------------------------------------------------------------------
(* Properties *)

InG == flow = "generateAIInsights"
InI == flow = "improveWithAI"
InB == flow = "generateIndustryInsights"

LastCall == calls[Len(calls)]

\* A remote call that resolved with a text that cleans to a JSON document.
Parseable(o) == o.kind = "response" /\ o.finish = "STOP" /\ ParseOk(CleanText(o.text))

\* A remote call that resolved with a text that does not.
Malformed(o) == o.kind = "response" /\ o.finish = "STOP" /\ ~ParseOk(CleanText(o.text))

Is429(o) == o.kind = "throw" /\ o.err.status = 429
Is503(o) == o.kind = "throw" /\ o.err.status = 503

\* C1: generateAIInsights never propagates an exception: whatever the remote
\* calls did, it makes at most maxRetries of them, is never stuck before its
\* end, and ends by returning the value parsed from its last call or the
\* record of getFallbackInsights.
C1_FallbackModeNeverRaises ==
    InG =>
        /\ ret.kind # "throw"
        /\ Len(calls) <= MaxRetries
        /\ pc # "done" => ENABLED (G_Enter \/ G_Invoke \/ G_Resolve \/ G_Wake)
        /\ pc = "done" =>
            /\ ret.kind = "return"
            /\ IF Parseable(LastCall)
               THEN ret.val = JSONParse(CleanText(LastCall.text)) /\ caught = NoError
               ELSE ret.val = getFallbackInsights(req.industry) /\ caught # NoError

\* generateAIInsights ended on the fallback record after a policy block.
C1_Witness ==
    /\ InG /\ pc = "done"
    /\ LastCall = Blocked
    /\ caught.name = "PolicyBlocked"
    /\ ret = Returned(getFallbackInsights(req.industry))

\* Every remote call of the current step of the job was rejected and the
\* attempts are used up.
B_Exhausted ==
    /\ InB /\ Len(calls) = MaxRetries /\ outstanding = 0
    /\ \A n \in 1..Len(calls) : calls[n].kind = "throw"

\* C2: in the job, when the remote call of an industry fails on every attempt,
\* the step does not raise: no error leaves the run, and the run goes on.
C2_BatchExhaustionFallsBack ==
    B_Exhausted => (ret.kind # "throw" /\ pc # "done")

\* C3: when every remote call of generateAIInsights is rejected with status
\* 429, it ends after exactly 3 calls, having slept 1000 ms then 2000 ms,
\* on the fallback record.
C3_FallbackModeRateLimited ==
    (InG /\ pc = "done" /\ \A n \in 1..Len(calls) : Is429(calls[n])) =>
        /\ Len(calls) = 3
        /\ sleeps = <<1000, 2000>>
        /\ ret = Returned(getFallbackInsights(req.industry))

\* C4: when every remote call of improveWithAI is rejected with a rate-limit
\* error (status 429, a message with quota or rate limit), it ends after
\* exactly 3 calls, having slept 1000 ms then 2000 ms and not after the third
\* call, by raising the rate-limit error.
C4_StrictModeRateLimited ==
    (/\ InI /\ pc = "done" /\ calls # <<>>
     /\ \A n \in 1..Len(calls) :
           /\ Is429(calls[n])
           /\ ("quota" \in calls[n].err.msg \/ "rate limit" \in calls[n].err.msg)) =>
        /\ Len(calls) = 3
        /\ sleeps = <<1000, 2000>>
        /\ ret = Thrown(UserRateLimit)

\* improveWithAI ended after three rate-limited calls.
C4_Witness ==
    /\ InI /\ pc = "done"
    /\ calls = <<Threw(ErrRateLimited), Threw(ErrRateLimited), Threw(ErrRateLimited)>>
    /\ ret.kind = "throw"

\* Calls 1 and 2 were rejected with status 503 and call 3 resolved with a
\* parseable text.
RecoveredOnThird ==
    /\ Len(calls) = 3
    /\ Is503(calls[1]) /\ Is503(calls[2])
    /\ Parseable(calls[3])

\* C5: when the remote call fails with status 503 on attempts 1 and 2 and
\* resolves with a parseable text on attempt 3, the value parsed from attempt
\* 3 is the result (returned by generateAIInsights, written to the table by
\* the job) and the sleeps were baseDelay * 1 then baseDelay * 2.
C5_RecoveryAfterTwoOverloads ==
    RecoveredOnThird =>
        LET parsed == JSONParse(CleanText(calls[3].text)) IN
        /\ InG => /\ pc = "done"
                  /\ ret = Returned(parsed)
                  /\ sleeps = <<BaseDelay * 1, BaseDelay * 2>>
        /\ InB => /\ ret.kind # "throw"
                  /\ sleeps = <<InitialDelay * 1, InitialDelay * 2>>
                  /\ \/ [industry |-> req.industry, data |-> parsed] \in dbPending
                     \/ db[req.industry] = parsed

\* generateAIInsights returned the value of its third call after two 503.
C5_Witness ==
    /\ InG /\ RecoveredOnThird
    /\ ret = Returned(Insights2)
    /\ calls[3].text = Wrap(Doc2)

\* C6: when a remote call of improveWithAI returns a candidate whose finish
\* reason is SAFETY, improveWithAI fails at once: one remote call, no sleep.
C6_SafetyBlockNotRetried ==
    (InI /\ calls # <<>> /\ calls[1] = Blocked) =>
        /\ Len(calls) = 1
        /\ sleeps = <<>>
        /\ ret.kind = "throw"

\* The classes the specification calls fatal.
FatalClass(error) ==
    error.name \in {"AuthFailure", "PolicyBlocked", "NetworkError", "Unknown"}

\* The errors the retry helper of the flow caught on the attempt that ended
\* with outcome o.
HelperErrors(o) ==
    IF InG THEN G_FnErrors(o)
    ELSE IF o.kind = "throw" THEN {o.err} ELSE {}

\* What the retry helper threw to its caller.
HelperThrew == IF InG THEN caught ELSE ret.err

\* C7: in both retryWithBackoff helpers, an attempt that fails with an error
\* of a fatal class is the last one: the helper rethrows that error, with no
\* sleep after the attempt and no further remote call.
C7_FatalNotRetried ==
    (InG \/ InB) =>
        \A n \in 1..Len(calls) :
            \A e \in HelperErrors(calls[n]) :
                FatalClass(e) =>
                    /\ n = Len(calls)
                    /\ pc = "done"
                    /\ Len(sleeps) = n - 1
                    /\ HelperThrew = e
                    /\ outstanding = 0

\* The job's helper rethrew an authentication failure met on its second attempt.
C7_Witness ==
    /\ InB /\ Len(calls) = 2
    /\ Is429(calls[1])
    /\ calls[2] = Threw(ErrAuth)
    /\ ret = Thrown(ErrAuth)
    /\ sleeps = <<InitialDelay>>

\* C8: in generateAIInsights and in the job, when a remote call resolves with
\* a text that does not parse and the attempt is not the last, a backoff
\* sleep is taken and the run goes on to another remote call.
C8_MalformedOutputRetried ==
    (/\ InG \/ InB
     /\ calls # <<>> /\ outstanding = 0
     /\ Len(calls) < MaxRetries
     /\ Malformed(LastCall)) =>
        /\ pc # "done"
        /\ Len(sleeps) = Len(calls)

\* C9: when all 3 attempts of improveWithAI fail it raises one of the four
\* user-readable errors, chosen from the message of the error of the third
\* attempt alone.
C9_ExhaustionMapsLastError ==
    (InI /\ Len(calls) = 3 /\ \A n \in 1..3 : I_TryError(calls[n]) # NoError) =>
        LET m == I_TryError(calls[3]).msg IN
        /\ pc = "done"
        /\ ret.kind = "throw"
        /\ ret.err = IF "safety filters" \in m THEN UserSafety
                     ELSE IF "quota" \in m \/ "rate limit" \in m THEN UserRateLimit
                     ELSE IF "network" \in m \/ "fetch" \in m THEN UserNetwork
                     ELSE UserGeneric

\* improveWithAI raised the rate-limit error after a safety block, an empty
\* text and a rate-limit rejection.
C9_Witness ==
    /\ InI /\ pc = "done"
    /\ calls = <<Blocked, Responded(<<"SP">>), Threw(ErrRateLimited)>>
    /\ ret = Thrown(UserRateLimit)

\* C10: the job processes the industries one at a time in fetched order: at
\* most one remote call is outstanding, the finished steps are a prefix of
\* the fetched list, and while a step runs every earlier industry has its
\* update written and none is pending.
C10_SequentialBatch ==
    InB =>
        /\ outstanding <= 1
        /\ Cardinality(dbPending) <= 1
        /\ outstanding = 1 => dbPending = {}
        /\ pc \in {"call", "awaitCall", "sleeping", "awaitUpdate"} =>
            /\ k \in 1..Len(industries)
            /\ req.industry = industries[k]
            /\ stepLog = SubSeq(industries, 1, k - 1)
            /\ \A u \in dbPending : u.industry = industries[k]
            /\ \A j \in 1..(k - 1) :
                  db[industries[j]] \in { JsonValue(doc) : doc \in JsonDocs }

\* The step of the second industry is retrying its remote call.
C10_Witness ==
    /\ InB /\ k = 2 /\ pc = "awaitCall"
    /\ outstanding = 1
    /\ Len(calls) = 1
    /\ Len(stepLog) = 1

\* The maxRetries of the retry loop of the flow.
LoopBound == IF InI THEN MaxRetries ELSE maxRetriesArg

\* C11: in every retry loop the n-th sleep follows the n-th failed attempt
\* and lasts baseDelay * 2^(n-1); no sleep precedes the first attempt or
\* follows the last one, and each sleep is longer than the one before.  The
\* helpers are run with any maxRetries, improveWithAI with its delay of 1000.
C11_BackoffSchedule ==
    LET base == IF InB THEN 2000 ELSE 1000 IN
    /\ \A n \in 1..Len(sleeps) : sleeps[n] = base * 2^(n - 1)
    /\ \A n \in 2..Len(sleeps) : sleeps[n] > sleeps[n - 1]
    /\ Len(sleeps) <= Len(calls)
    /\ Len(calls) <= Len(sleeps) + 1
    /\ Len(sleeps) < LoopBound \/ sleeps = <<>>
    /\ pc = "sleeping" => Len(sleeps) = Len(calls) /\ Len(calls) < LoopBound

\* The job's helper, run with maxRetries = 4, slept three times.
C11_Witness ==
    /\ InB /\ maxRetriesArg = 4
    /\ sleeps = <<2000, 4000, 8000>>
    /\ Len(calls) = 4

\* C14: each retry loop makes at most maxRetries remote calls and at most
\* maxRetries - 1 sleeps, makes at least one call before it ends, never runs
\* off the end of the loop when maxRetries >= 1, is never stuck, and ends
\* with a return or a throw.
C14_BoundedAttempts ==
    /\ Len(calls) <= LoopBound
    /\ LoopBound >= 1 => Len(sleeps) <= LoopBound - 1
    /\ LoopBound >= 1 =>
        /\ ~(pc = "call" /\ i >= (IF InI THEN LoopBound + 1 ELSE LoopBound))
        /\ (InG /\ pc = "done") => Len(calls) >= 1
        /\ (InI /\ pc = "done" /\ req.userId # "" /\ req.userFound
                /\ Len(Trim(req.current)) > 0) => Len(calls) >= 1
        /\ (InB /\ (pc = "awaitUpdate" \/ ret.kind = "throw")) => Len(calls) >= 1
    /\ pc # "done" => ENABLED NextAnyRetries
    /\ pc = "done" => ret.kind \in {"return", "throw"}

\* generateAIInsights, run with maxRetries = 4, used its four attempts.
C14_Witness ==
    /\ InG /\ maxRetriesArg = 4 /\ pc = "done"
    /\ Len(calls) = 4 /\ Len(sleeps) = 3

\* C12: cleaning a JSON text wrapped in a leading ```json fence and a
\* trailing ``` fence gives what cleaning the text alone gives, and it leaves
\* the content of the text as it was: the value parsed is the value of the
\* text.
C12_FenceStripping ==
    (/\ InG \/ InB
     /\ calls # <<>>
     /\ LastCall.kind = "response" /\ LastCall.finish = "STOP") =>
        \A doc \in JsonDocs :
            LastCall.text \in {doc, Wrap(doc)} =>
                /\ CleanText(Wrap(doc)) = CleanText(doc)
                /\ CleanText(LastCall.text) = doc
                /\ (InG /\ pc = "done") => ret = Returned(JsonValue(doc))

IsPrefix(a, b) == Len(a) <= Len(b) /\ a = SubSeq(b, 1, Len(a))

\* C13: a second call of generateAIInsights with the same industry against
\* the same remote makes the same attempts and the same sleeps as the first
\* and returns the same record.
C13_Determinism ==
    run = 2 =>
        /\ IsPrefix(calls, first.calls)
        /\ IsPrefix(sleeps, first.sleeps)
        /\ pc = "done" =>
            /\ ret = first.ret
            /\ calls = first.calls
            /\ sleeps = first.sleeps

\* The second call ended as the first, after two retries.
C13_Witness ==
    /\ run = 2 /\ pc = "done"
    /\ Len(calls) = 3 /\ sleeps = <<1000, 2000>>
    /\ ret = Returned(Insights1)

\* An attempt that succeeds: the callback of the dashboard helper returned a
\* parsed value, the try block of improveWithAI reached its return, the
\* remote call of the job's helper resolved.
Succeeded(o) ==
    IF InI THEN o.kind = "response" /\ o.finish = "STOP" /\ Len(Trim(o.text)) > 0
    ELSE IF InB THEN o.kind # "throw"
    ELSE Parseable(o)

\* C15: in every retry loop an attempt that succeeds is the last: no remote
\* call and no sleep follows it, and its result, not that of an earlier
\* attempt and not the fallback, is what the loop returns.
C15_SuccessShortCircuits ==
    \A n \in 1..Len(calls) :
        Succeeded(calls[n]) =>
            /\ n = Len(calls)
            /\ Len(sleeps) = n - 1
            /\ outstanding = 0
            /\ InG => /\ pc = "done"
                      /\ ret = Returned(JSONParse(CleanText(calls[n].text)))
                      /\ ret.val # getFallbackInsights(req.industry)
            /\ InI => /\ pc = "done"
                      /\ ret = ReturnedStr(Trim(calls[n].text))
            /\ InB => /\ pc \in {"awaitUpdate", "loop", "done"}
                      /\ Parseable(calls[n]) =>
                          LET parsed == JSONParse(CleanText(calls[n].text)) IN
                          /\ ret.kind # "throw"
                          /\ \/ [industry |-> req.industry, data |-> parsed]
                                    \in dbPending
                             \/ db[req.industry] = parsed

\* improveWithAI returned the text of its third attempt.
C15_Witness ==
    /\ InI /\ pc = "done"
    /\ Len(calls) = 3 /\ Succeeded(calls[3])
    /\ ret = ReturnedStr(<<"oops">>)

\* improveWithAI has made no remote call and taken no sleep.
NothingRemote == calls = <<>> /\ sleeps = <<>> /\ outstanding = 0

\* C18: improveWithAI raises Unauthorized, User not found or Please provide
\* content to improve, in that order of precedence, without any remote call
\* or sleep; it calls the remote only when the caller is authenticated, the
\* user exists and the content is not blank.
C18_GuardsPrecedeRemoteCall ==
    (InI /\ pc # "start") =>
        LET blank == req.current = <<>> \/ \A n \in 1..Len(req.current) :
                                              req.current[n] \in {"SP", "NL"} IN
        /\ req.userId = "" =>
              ret = Thrown(ErrUnauthorized) /\ NothingRemote
        /\ (req.userId # "" /\ ~req.userFound) =>
              ret = Thrown(ErrUserNotFound) /\ NothingRemote
        /\ (req.userId # "" /\ req.userFound /\ blank) =>
              ret = Thrown(ErrNoContent) /\ NothingRemote
        /\ ~NothingRemote => (req.userId # "" /\ req.userFound /\ ~blank)

\* improveWithAI refused a content made of blanks.
C18_Witness ==
    /\ InI /\ pc = "done"
    /\ req.userId = "u1" /\ req.userFound /\ req.current = <<"SP">>
    /\ ret = Thrown(ErrNoContent)
    /\ NothingRemote

InD    == flow = "getIndustryInsights"
InDash == flow = "DashboardPage"

\* getIndustryInsights found its caller's user and read the insight row.
D_ReadRow == flow \in DFlows /\ req.fetched /\ req.userId # "" /\ req.userFound

\* C16: getIndustryInsights calls the remote and issues a create only when
\* the user's industry has no stored row; when it has one, that row is
\* returned with no remote call, no sleep and no write, whether its
\* nextUpdate has passed or not.  A step that changes the table under
\* getIndustryInsights inserts the generated record for an industry that had
\* no row; a step that changes it under the job rewrites rows that exist and
\* leaves absent ones absent.
C16_CreateIfAbsent ==
    /\ [](D_ReadRow =>
            /\ req.insight # Absent =>
                /\ NothingRemote
                /\ pc = "done"
                /\ ret = Returned(req.insight)
                /\ db[req.industry] = req.insight
                /\ nextUpdate[req.industry] \in {"past", "future"}
            /\ (~NothingRemote \/ pc = "create") => req.insight = Absent)
    /\ [][(db' # db \/ nextUpdate' # nextUpdate) =>
            /\ flow \in DFlows =>
                /\ D_ReadRow /\ req.insight = Absent /\ calls # <<>>
                /\ db[req.industry] = Absent
                /\ db' = [db EXCEPT ![req.industry] = ret.val]
                /\ ret' = Returned(db'[req.industry])
            /\ InB =>
                \A ind \in Industries :
                    /\ db[ind] = Absent => db'[ind] = Absent
                    /\ db'[ind] # db[ind] => ind \in { u.industry : u \in dbPending }
            /\ flow \in DFlows \/ InB]_vars

\* getIndustryInsights returned a stored row whose nextUpdate has passed.
C16_Witness ==
    /\ InD /\ pc = "done"
    /\ req.insight = StaleInsights
    /\ nextUpdate[req.industry] = "past"
    /\ ret = Returned(StaleInsights)
    /\ NothingRemote

\* C19: DashboardPage asks for the insights, and so reaches a remote call or
\* a create, only after the session has a user and the onboarding status was
\* queried and is onboarded; without a user it redirects to /sign-in before
\* the onboarding status is queried, and for a user not onboarded it
\* redirects to /onboarding before any insight is asked for.
C19_DashboardGating ==
    (InDash /\ pc # "start") =>
        /\ req.userId = "" =>
            /\ ret = Thrown(ErrRedirect("/sign-in")) /\ pc = "done"
            /\ ~req.queried /\ ~req.fetched
        /\ (req.queried /\ ~req.onboarded) =>
            /\ ret = Thrown(ErrRedirect("/onboarding")) /\ pc = "done"
            /\ req.userId # "" /\ ~req.fetched
        /\ req.queried => req.userId # ""
        /\ req.fetched => (req.userId # "" /\ req.queried /\ req.onboarded)
        /\ (~NothingRemote \/ pc \in {"call", "awaitCall", "sleeping", "create"}) =>
            req.fetched

\* DashboardPage passed both checks and getIndustryInsights created the row
\* of the user's industry.
C19_Witness ==
    /\ InDash /\ pc = "done"
    /\ req.userId = "u1" /\ req.queried /\ req.onboarded /\ req.fetched
    /\ req.insight = Absent
    /\ calls # <<>>
    /\ ret = Returned(db[req.industry])

\* C17: among the concurrent calls of getIndustryInsights for users of one
\* industry that found no stored row, at most one issues a create, none
\* fails with a unique-key violation, and the calls that ended returned the
\* same record.
C17_NoDuplicateCreate ==
    \A p \in DOMAIN procs :
        /\ procs[p].ret # Thrown(ErrUniqueViolation)
        /\ \A q \in DOMAIN procs :
            (p # q /\ procs[p].industry = procs[q].industry) =>
                /\ ~(procs[p].issued /\ procs[q].issued)
                /\ (procs[p].pc = "done" /\ procs[q].pc = "done") =>
                      procs[p].ret = procs[q].ret

====
